---- MODULE Spec2Model ----
(***************************************************************************)
(* A model of src/oqs/wrapper.py: the ctypes binding of liboqs.            *)
(*                                                                         *)
(* The module has two parts.  The import part (SpecImport) follows the     *)
(* module-level statements: _load_shared_obj, then the capability lists    *)
(* of the two families.  The wrapper part (Spec) starts from a state in    *)
(* which the import has finished and follows OQS_KEM and OQS_SIG objects   *)
(* through construction, their operations, free() and __exit__, together   *)
(* with the module's public functions: the enablement test and the         *)
(* getters of the lists of enabled mechanisms, which hand the caller the   *)
(* lists the constructors validate against.                                *)
(*                                                                         *)
(* Three more specifications follow particular callers from the same       *)
(* state: SpecCaller keeps the results of the operations to pass them to   *)
(* later ones (the round trips), SpecTwo holds two objects at a time, and  *)
(* SpecLists reads and changes the lists of enabled mechanisms.            *)
(*                                                                         *)
(* The native library is the environment.  Its heap is modelled (which     *)
(* context addresses are allocated, and to which mechanism), its status    *)
(* codes are chosen nondeterministically, and its cryptography is a toy    *)
(* that keeps the round-trip laws.  Reading through a pointer to a         *)
(* context that was freed is undefined (GarbageLens), and so is freeing    *)
(* it again: the call returns or the process is aborted, and from then on  *)
(* no context is sound (Sound): the allocator may hand its memory out      *)
(* again.                                                                  *)
(***************************************************************************)
EXTENDS Integers, Sequences, FiniteSets, TLC

VARIABLES
    pc,         \* position in the module-level code: "load", "ids_KEM", ... "ready", "exit";
                \* "abort" once the process has been killed
    environ,    \* os.environ: the value of LIBOQS_INSTALL_PATH, or Unset
    found,      \* what ctypes.util.find_library('oqs') returns: a path or NoneVal
    exists,     \* the set of paths for which os.path.exists is true
    loadable,   \* the set of paths dll.LoadLibrary loads without OSError
    built,      \* native library: the mechanisms OQS_*_new instantiates in this build
    liboqs,     \* the global liboqs: the path loaded, or NoneVal
    exitMsg,    \* the argument of sys.exit, or NoneVal
    alg_ids,    \* _KEM_alg_ids / _sig_alg_ids, per family
    supported,  \* _supported_KEMs / _supported_sigs, per family
    enabled,    \* _enabled_KEMs / _enabled_sigs, per family
    probeIdx,   \* position of the comprehension at lines 199 / 336
    heap,       \* native heap: address -> cell (allocated or not, and for which object)
    allocator,  \* "ok", or "corrupt" once an address was freed that was not allocated
    inst,       \* the wrapper objects the caller holds
    last,       \* what the last operation did (its inputs, its outcome, its native call)
    kept        \* what the caller keeps of earlier results (its own variables)

vars == <<pc, environ, found, exists, loadable, built, liboqs, exitMsg,
          alg_ids, supported, enabled, probeIdx, heap, allocator, inst, last, kept>>

envVars == <<environ, found, exists, loadable, built>>

(***************************************************************************)
(* Bounds of the model.                                                    *)
(***************************************************************************)
MaxAddr == 2       \* addresses of the native heap
MaxFrees == 2      \* native free calls counted per object (the count saturates)
MaxInLen == 3      \* longest key or ciphertext a caller passes
MaxMsgLen == 2     \* longest message a caller signs or verifies
MaxSigLen == 1     \* longest signature a caller passes to verify (the native one has 1 byte)
MaxListLen == 2    \* longest list a caller makes by appending to a list it was given

Byte == {0, 1}
\* Spec follows one wrapper object from its construction on: the operations
\* of an object read and write that object's fields and its native context only.
\* Its caller changes a list of enabled mechanisms at most once, at any time
\* (SpecLists follows every sequence of changes).
Inst == {1}
Addr == 1..MaxAddr

NoneVal == "None"
Unset == "<unset>"

\* A cell of the native heap: whether it is allocated, and the wrapper object
\* whose constructor obtained it (0: no object holds it).
FreeCell == [alloc |-> FALSE, owner |-> 0]
Cell(i) == [alloc |-> TRUE, owner |-> i]

Family == {"KEM", "SIG"}

NByte == Cardinality(Byte)

\* The byte string of length n that starts with b and counts up from there
\* (modulo the number of byte values): <<1, 0, 1>> for n = 3, b = 1.
Alt(n, b) == [k \in 1..n |-> (b + k - 1) % NByte]

\* The byte strings a caller passes: every length up to MaxInLen, every first
\* byte; the empty string, strings with zero bytes inside, strings that end
\* with a zero byte.
Strings(maxlen) == {Alt(n, b) : n \in 0..maxlen, b \in Byte}
Inputs == Strings(MaxInLen)
Messages == Strings(MaxMsgLen)
Signatures == Strings(MaxSigLen)

(***************************************************************************)
(* The native library (the environment of the wrapper).                    *)
(***************************************************************************)

\* OQS_KEM_alg_identifier(i) / OQS_SIG_alg_identifier(i), i in range(alg_count()):
\* the build-time registry of the library, in its enumeration order.
NativeAlgs == [KEM |-> <<"K1", "K2">>, SIG |-> <<"S1", "S2">>]

\* A name the library's registry does not hold for either family.
UnknownName == "X"

AlgNames == {"K1", "K2", "S1", "S2"}
Names == AlgNames \cup {UnknownName}

\* The length fields of the native structure (OQS_KEM / OQS_SIG _fields_), per
\* mechanism.  A field the family does not have reads 0.
NativeDesc ==
    [K1 |-> [length_public_key |-> 2, length_secret_key |-> 2, length_ciphertext |-> 2,
             length_shared_secret |-> 1, length_signature |-> 0],
     K2 |-> [length_public_key |-> 1, length_secret_key |-> 2, length_ciphertext |-> 1,
             length_shared_secret |-> 1, length_signature |-> 0],
     S1 |-> [length_public_key |-> 2, length_secret_key |-> 1, length_ciphertext |-> 0,
             length_shared_secret |-> 0, length_signature |-> 2],
     S2 |-> [length_public_key |-> 1, length_secret_key |-> 1, length_ciphertext |-> 0,
             length_shared_secret |-> 0, length_signature |-> 2]]

\* Status codes of the native routines: OQS_SUCCESS and two failures.
Status == {0, 1, -1}

\* expected return value from native OQS functions
_OQS_SUCCESS == 0

SeqToSet(s) == {s[k] : k \in 1..Len(s)}

\* x in list (Python's `in` on a list)
InList(x, s) == x \in SeqToSet(s)

\* The NULL pointer
NULL == 0

\* The addresses a wrapper object points to (its context, or what was its
\* context before it was freed)
Referenced == {inst[i].ctx : i \in DOMAIN inst}

\* The least address of a non-empty set
Least(S) == CHOOSE a \in S : \A b \in S : a <= b

\* OQS_KEM_new / OQS_SIG_new: the pointers the call may return for `name` in
\* family f: NULL when the build does not hold the mechanism, else an address
\* the allocator has to give (none when the model's heap is exhausted).  The
\* allocator may give any free address.  The free addresses no object points
\* to differ by their name only, so one of them stands for all; every free
\* address an object still points to is a choice of its own.
NativeNewAddrs(h, b, f, name) ==
    IF InList(name, NativeAlgs[f]) /\ name \in b
    THEN LET free  == {a \in Addr : ~h[a].alloc}
             fresh == free \ Referenced
         IN  (free \cap Referenced) \cup (IF fresh = {} THEN {} ELSE {Least(fresh)})
    ELSE {NULL}

\* OQS_KEM_free / OQS_SIG_free(ctx): the address returns to the allocator,
\* whoever holds it.
NativeFree(h, a) == [h EXCEPT ![a] = FreeCell]

(***************************************************************************)
(* Library Locator: _load_shared_obj and the module-level try (20-47).    *)
(***************************************************************************)
EnvPath == "/opt/oqs/liboqs.so"
SysPath == "/usr/lib/liboqs.so"

\* os.path.join(os.curdir, LIBOQS_SHARED_OBJ)
CurdirPath == "./liboqs.so"

Paths == {EnvPath, SysPath, CurdirPath}

\* CandidatePaths with the environment variable tried last
CandidatePathsEnvLast(env, fnd) ==
    <<fnd, CurdirPath>> \o (IF env # Unset THEN <<env>> ELSE <<>>)

\* lines 22-29: the candidate list, in priority order
CandidatePaths(env, fnd) ==
    (IF env # Unset THEN <<env>> ELSE <<>>) \o <<fnd, CurdirPath>>

\* `path and os.path.exists(path)`: None and '' are falsy
Usable(path, ex) == path # NoneVal /\ path # "" /\ path \in ex

\* FirstUsable going on to the next candidate when one does not load
RECURSIVE FirstUsableThatLoads(_, _)
FirstUsableThatLoads(paths, ex) ==
    IF paths = <<>> THEN NoneVal
    ELSE IF Usable(Head(paths), ex) /\ Head(paths) \in loadable THEN Head(paths)
    ELSE FirstUsableThatLoads(Tail(paths), ex)

\* lines 32-35: the first usable candidate, or NoneVal when the loop ends
RECURSIVE FirstUsable(_, _)
FirstUsable(paths, ex) ==
    IF paths = <<>> THEN NoneVal
    ELSE IF Usable(Head(paths), ex) THEN Head(paths)
    ELSE FirstUsable(Tail(paths), ex)

OSErrorMsg == "Could not load liboqs shared library"
RuntimeErrorMsg == "No liboqs shared libraries found"

\* lines 40-47: one attempt; sys.exit on OSError or RuntimeError
_load_shared_obj ==
    /\ pc = "load"
    /\ LET path == FirstUsable(CandidatePaths(environ, found), exists)
       IN  IF path = NoneVal
           THEN /\ pc' = "exit"
                /\ exitMsg' = RuntimeErrorMsg
                /\ liboqs' = liboqs
           ELSE IF path \notin loadable
           THEN /\ pc' = "exit"
                /\ exitMsg' = OSErrorMsg
                /\ liboqs' = liboqs
           ELSE /\ pc' = "ids_KEM"
                /\ exitMsg' = exitMsg
                /\ liboqs' = path
    /\ UNCHANGED <<envVars, alg_ids, supported, enabled, probeIdx, heap, allocator, inst, last, kept>>

(***************************************************************************)
(* Records of operations, and the exception classes.                       *)
(***************************************************************************)
\* What an operation did: its inputs, the state it found, the exception it
\* raised or the value it returned, and its native call.
NoOp == [op |-> "none", inst |-> 0, family |-> "none", name |-> "none",
         with |-> FALSE, arg_none |-> FALSE, arg |-> <<>>, msg |-> <<>>, sig |-> <<>>,
         pre_released |-> FALSE, pre_valid |-> FALSE, pre_has_sk |-> FALSE,
         exc |-> "none", rtype |-> "none", b1 |-> <<>>, b2 |-> <<>>, flag |-> FALSE,
         text |-> "none",
         native |-> "none", native_valid |-> FALSE, rv |-> 0,
         nat_args |-> <<>>, nfree |-> 0, obj |-> "none"]

NewFn(f) == "OQS_" \o f \o "_new"
FreeFn(f) == "OQS_" \o f \o "_free"
KeypairFn(f) == "OQS_" \o f \o "_keypair"

\* The base class of each exception class (lines 50 and 61 for the two of
\* this module).
BaseClass ==
    [MechanismNotEnabledError |-> "MechanismNotSupportedError",
     MechanismNotSupportedError |-> "Exception",
     ValueError |-> "Exception",
     AttributeError |-> "Exception",
     MemoryError |-> "Exception",
     OverflowError |-> "ArithmeticError",
     UnicodeDecodeError |-> "UnicodeError",
     UnicodeError |-> "ValueError",
     ArithmeticError |-> "Exception",
     Exception |-> "BaseException"]

\* issubclass(c, d)
RECURSIVE IsSubclass(_, _)
IsSubclass(c, d) ==
    \/ c = d
    \/ c \in DOMAIN BaseClass /\ IsSubclass(BaseClass[c], d)

\* `except handler:` receives an exception of class c
Catches(handler, c) == c # "none" /\ IsSubclass(c, handler)

\* The process is killed by a signal (SIGSEGV, SIGABRT) during the operation:
\* nothing is returned and nothing is raised.
Killed(r) == [r EXCEPT !.rtype = "killed"]
PcAfter(r) == IF r.rtype = "killed" THEN "abort" ELSE pc

(***************************************************************************)
(* Capability Registry: lines 181-199 (KEM) and 318-336 (SIG).             *)
(***************************************************************************)
NextPc(f) == IF f = "KEM" THEN "ids_SIG" ELSE "ready"

\* lines 197-198 / 334-335: the identifiers of the family, decoded
Enumerate(f) ==
    /\ pc = "ids_" \o f
    /\ alg_ids' = [alg_ids EXCEPT ![f] = NativeAlgs[f]]
    /\ supported' = [supported EXCEPT ![f] = NativeAlgs[f]]
    /\ probeIdx' = 1
    /\ pc' = "probe_" \o f
    /\ UNCHANGED <<envVars, liboqs, exitMsg, enabled, heap, allocator, inst, last, kept>>

\* is_enabled that returns True without freeing the context it obtained
is_enabled_no_free(h, al, b, f, alg_name) ==
    LET as == NativeNewAddrs(h, b, f, alg_name)
    IN  {IF a = NULL
         THEN [result |-> FALSE, heap |-> h, exc |-> "none", nfree |-> 0,
               killed |-> FALSE]
         ELSE [result |-> TRUE, heap |-> [h EXCEPT ![a] = Cell(0)], exc |-> "none",
               nfree |-> 0, killed |-> FALSE]
         : a \in as}

\* is_KEM_enabled / is_sig_enabled (181-194 / 318-336) with heap h and the
\* allocator in state al: the result, the heap it leaves, the exception that
\* leaves the function, the number of native free calls, and whether the
\* process was killed in it.  A NULL result makes `.contents` raise ValueError,
\* which `except ValueError` receives; the function then returns False.  With
\* a corrupt allocator the buffer of the name, the native new routine or the
\* native free routine may abort the process: before anything is allocated,
\* or with the context allocated, or after it was freed.
is_enabled(h, al, b, f, alg_name) ==
    LET as == NativeNewAddrs(h, b, f, alg_name)
        returns ==
            {IF a = NULL
             THEN [result |-> FALSE, heap |-> h,
                   exc |-> IF Catches("ValueError", "ValueError") THEN "none"
                           ELSE "ValueError",
                   nfree |-> 0, killed |-> FALSE]
             ELSE [result |-> TRUE, heap |-> NativeFree([h EXCEPT ![a] = Cell(0)], a),
                   exc |-> "none", nfree |-> 1, killed |-> FALSE]
             : a \in as}
        kills ==
            {[result |-> FALSE, heap |-> h, exc |-> "none", nfree |-> 0, killed |-> TRUE]}
            \cup {[result |-> FALSE, heap |-> [h EXCEPT ![a] = Cell(0)], exc |-> "none",
                   nfree |-> 0, killed |-> TRUE] : a \in as \ {NULL}}
            \cup {[result |-> FALSE, heap |-> NativeFree([h EXCEPT ![a] = Cell(0)], a),
                   exc |-> "none", nfree |-> 1, killed |-> TRUE] : a \in as \ {NULL}}
    IN  IF al = "ok" THEN returns ELSE returns \cup kills

\* Collect putting the identifier at the front of the list
CollectInFront(acc, x, keep) == IF keep THEN <<x>> \o acc ELSE acc

\* [i for i in _supported_KEMs if is_KEM_enabled(i)]: what one identifier adds
\* to the list being built
Collect(acc, x, keep) == IF keep THEN Append(acc, x) ELSE acc

\* The record of a call of is_KEM_enabled / is_sig_enabled with outcome r
IsEnabledRecord(f, alg_name, r) ==
    LET rec == [NoOp EXCEPT !.op = "is_enabled", !.family = f, !.name = alg_name,
                            !.native = NewFn(f), !.native_valid = TRUE,
                            !.exc = r.exc, !.nfree = r.nfree]
    IN  IF r.killed THEN Killed(rec)
        ELSE [rec EXCEPT !.rtype = "bool", !.flag = r.result]

\* one iteration of the comprehension at line 199 / 336
Probe(f) ==
    /\ pc = "probe_" \o f
    /\ probeIdx <= Len(supported[f])
    /\ \E r \in is_enabled(heap, allocator, built, f, supported[f][probeIdx]) :
          /\ enabled' = [enabled EXCEPT ![f] =
                            Collect(@, supported[f][probeIdx], ~r.killed /\ r.result)]
          /\ heap' = r.heap
          /\ last' = IsEnabledRecord(f, supported[f][probeIdx], r)
    /\ probeIdx' = probeIdx + 1
    /\ pc' = PcAfter(last')
    /\ UNCHANGED <<envVars, liboqs, exitMsg, alg_ids, supported, allocator, inst, kept>>

\* is_KEM_enabled(alg_name) / is_sig_enabled(alg_name) called by the caller, once
\* the import has finished
is_mechanism_enabled(f, alg_name) ==
    /\ pc = "ready"
    /\ last = NoOp
    /\ \E r \in is_enabled(heap, allocator, built, f, alg_name) :
          /\ heap' = r.heap
          /\ last' = IsEnabledRecord(f, alg_name, r)
    /\ pc' = PcAfter(last')
    /\ UNCHANGED <<envVars, liboqs, exitMsg, alg_ids, supported, enabled, probeIdx,
                   allocator, inst, kept>>

\* the comprehension ends: the list is bound to _enabled_KEMs / _enabled_sigs
ProbeDone(f) ==
    /\ pc = "probe_" \o f
    /\ probeIdx > Len(supported[f])
    /\ pc' = NextPc(f)
    /\ last' = NoOp
    /\ UNCHANGED <<envVars, liboqs, exitMsg, alg_ids, supported, enabled, probeIdx,
                   heap, allocator, inst, kept>>

(***************************************************************************)
(* ctypes helpers and the toy cryptography of the native routines.         *)
(***************************************************************************)
Zeros(n) == [k \in 1..n |-> 0]
First(s) == IF s = <<>> THEN 0 ELSE s[1]
Prefix(s, n) == [k \in 1..(IF n < Len(s) THEN n ELSE Len(s)) |-> s[k]]

RECURSIVE Sum(_)
Sum(s) == IF s = <<>> THEN 0 ELSE Head(s) + Sum(Tail(s))

\* create_string_buffer that allocates the buffer and does not copy init
create_string_buffer_no_copy(init, size) == Zeros(size)

\* create_string_buffer that adds a terminating zero byte after the size asked
\* for (what create_string_buffer(init) does to init)
create_string_buffer_nul(init, size) == init \o Zeros(size - Len(init) + 1)

\* ct.create_string_buffer(init, size): ValueError when init is longer than size,
\* else init followed by zero bytes up to size.  bytes(buffer) is the whole buffer.
Fits(init, size) == Len(init) <= size
create_string_buffer(init, size) == init \o Zeros(size - Len(init))

\* `if secret_key:` -- None and b'' are falsy
Truthy(is_none, b) == ~is_none /\ b # <<>>

\* OQS_*_keypair with randomness r: what it writes to the two buffers
NativePublicKey(lpk, r) == Alt(lpk, r)
NativeSecretKey(lsk, r) == Alt(lsk, r)

\* OQS_KEM_encaps with randomness e, OQS_KEM_decaps
NativeCiphertext(lct, e) == Alt(lct, e)
NativeEncapsSecret(lss, pk, e) == Alt(lss, (e + First(pk)) % NByte)
NativeDecapsSecret(lss, c, sk) == Alt(lss, (First(c) + First(sk)) % NByte)

\* OQS_SIG_sign / OQS_SIG_verify
Digest(m) == (Sum(m) + Len(m)) % NByte
\* The signature is one byte: sig_len is set to 1 (to the buffer's length when
\* the buffer is shorter).
NativeSignature(lsig, m, sk) == Prefix(<<(First(sk) + Digest(m)) % NByte>>, lsig)
NativeVerifyStatus(m, sg, pk) ==
    IF sg = <<(First(pk) + Digest(m)) % NByte>> THEN 0 ELSE -1

(***************************************************************************)
(* Wrapper objects.                                                        *)
(***************************************************************************)
NoInst == [st |-> "none", family |-> "none", alg |-> "none", ctx |-> 0,
           has_sk |-> FALSE, secret_key |-> <<>>, frees |-> 0]

\* The object's pointer still designates the context its constructor obtained.
Valid(i) == inst[i].ctx \in Addr /\ heap[inst[i].ctx] = Cell(i)

\* The memory the pointer designates still holds the context the constructor
\* obtained: the pointer is valid and no address was freed twice.  After a
\* double free the allocator may hand the memory of a live context out again,
\* to a buffer of the interpreter, which overwrites it.
Sound(i) == Valid(i) /\ allocator = "ok"

\* A length no buffer can be made with: what a read of freed memory gives when
\* the allocator has overwritten it.
Huge == MaxInLen + 1

\* What a read of a length through a pointer to freed (or since reallocated)
\* memory may give: whatever the memory holds now.  The length the mechanism
\* had (the memory was not reused yet), a length of a context that is there
\* now, any other number a buffer can be made with (up to the longest input
\* of a caller, which stands for every longer one), or a number too large for
\* a buffer.
GarbageLens == 0 .. Huge

\* self._kem.contents.<field> / self._sig.contents.<field>: the values the read
\* may give.  Through a dangling pointer the read is undefined, and so is the
\* read of a context whose memory the corrupt allocator has handed out again.
Lens(i, field) ==
    IF Sound(i) THEN {NativeDesc[inst[i].alg][field]}
    ELSE GarbageLens

\* ct.create_string_buffer can make a buffer of this size; when it cannot it
\* raises, before it copies anything, MemoryError (the allocation fails) or
\* OverflowError (the number does not fit an index).
Allocates(size) == size < Huge
AllocErrors == {"MemoryError", "OverflowError"}

\* has_secret_key as it would be if __init__ always set self.secret_key
has_secret_key_always(i) == TRUE

\* Whether the lookup of self.secret_key finds the attribute: it is set by
\* __init__ when a key is supplied and by generate_keypair, and nowhere else.
has_secret_key(i) == inst[i].has_sk

\* The caller's variables: the public key of the last successful
\* generate_keypair, the (ciphertext, shared secret) of the last successful
\* encap_secret with that key, the message and signature of the last
\* successful sign.
NoKept == [has_pk |-> FALSE, pk |-> <<>>,
           has_ct |-> FALSE, ct |-> <<>>, ss |-> <<>>,
           has_sig |-> FALSE, msg |-> <<>>, sig |-> <<>>]

\* The record of an operation on object i, before its outcome is filled in.
Op(op, i) == [NoOp EXCEPT !.op = op, !.inst = i, !.family = inst[i].family,
                           !.name = inst[i].alg,
                           !.pre_released = inst[i].frees > 0,
                           !.pre_valid = Sound(i),
                           !.pre_has_sk = inst[i].has_sk]

\* The caller is between two operations: the last one has returned or raised,
\* and the caller has gone on.
Idle == pc = "ready" /\ last = NoOp

Raise(r, e) == [r EXCEPT !.exc = e]
\* create_string_buffer fails to allocate: either exception, nothing else done
RaiseAlloc(r) == \E e \in AllocErrors : last' = Raise(r, e)
CallNative(r, fn, i, rv) == [r EXCEPT !.native = fn, !.native_valid = Sound(i), !.rv = rv]

\* A native routine handed a pointer to a freed or overwritten context reads
\* that memory (lines 139, 155, 166, 270, 286, 303): it returns, or it faults
\* and the process is killed.  TRUE: the call kills the process.
NativeKills(i) == IF Sound(i) THEN {FALSE} ELSE {FALSE, TRUE}

\* Once the allocator is corrupt an allocation made by the operation may abort
\* the process.
AllocatorKills(r) == allocator = "corrupt" /\ last' = Killed(r)

libVars == <<envVars, liboqs, exitMsg, alg_ids, supported, enabled, probeIdx>>
importVars == <<pc, libVars>>

\* CapabilityCheck with the two raise statements exchanged
CapabilityCheckSwapped(f, alg_name) ==
    IF ~InList(alg_name, enabled[f])
    THEN IF InList(alg_name, supported[f])
         THEN "MechanismNotSupportedError"
         ELSE "MechanismNotEnabledError"
    ELSE "none"

\* The exception the capability check of __init__ raises, or "none"
\* (lines 104-109 / 238-243).
CapabilityCheck(f, alg_name) ==
    IF ~InList(alg_name, enabled[f])
    THEN IF InList(alg_name, supported[f])
         THEN "MechanismNotEnabledError"
         ELSE "MechanismNotSupportedError"
    ELSE "none"

\* OQS_KEM.__init__ / OQS_SIG.__init__ (96-124 / 232-255), and __enter__ when
\* the object is made by a with statement.
__init__(i, f, alg_name, is_none, secret_key, with) ==
    /\ Idle
    /\ inst[i] = NoInst
    /\ \A j \in DOMAIN inst : j < i => inst[j] # NoInst
    /\ LET r0 == [NoOp EXCEPT !.op = "__init__", !.family = f, !.name = alg_name,
                              !.with = with, !.arg_none = is_none, !.arg = secret_key]
           e  == CapabilityCheck(f, alg_name)
       IN  \/ \* an allocation of the interpreter (the exception of a raise
              \* statement, 50-70 and 104-109 / 238-243; the buffer of the
              \* name, 111 / 245) aborts the process
              /\ AllocatorKills(r0)
              /\ UNCHANGED <<heap, inst>>
           \/ IF e # "none"
              THEN /\ last' = Raise(r0, e)
                   /\ UNCHANGED <<heap, inst>>
              ELSE \/ \* the native new routine allocates (111 / 245)
                      /\ AllocatorKills([r0 EXCEPT !.native = NewFn(f), !.native_valid = TRUE])
                      /\ UNCHANGED <<heap, inst>>
                   \/ \E a \in NativeNewAddrs(heap, built, f, alg_name) :
                        LET r1  == [r0 EXCEPT !.native = NewFn(f), !.native_valid = TRUE]
                            lsk == NativeDesc[alg_name].length_secret_key
                        IN  IF a = NULL
                            THEN \* self._kem.contents: ValueError, NULL pointer access
                                 /\ last' = Raise(r1, "ValueError")
                                 /\ UNCHANGED <<heap, inst>>
                            ELSE IF Truthy(is_none, secret_key) /\ ~Fits(secret_key, lsk)
                            THEN \* create_string_buffer raises: the object is never returned
                                 /\ heap' = [heap EXCEPT ![a] = Cell(0)]
                                 /\ last' = Raise(r1, "ValueError")
                                 /\ UNCHANGED inst
                            ELSE /\ heap' = [heap EXCEPT ![a] = Cell(i)]
                                 /\ inst' = [inst EXCEPT ![i] =
                                       [st |-> "obj", family |-> f, alg |-> alg_name, ctx |-> a,
                                        has_sk |-> Truthy(is_none, secret_key),
                                        secret_key |-> IF Truthy(is_none, secret_key)
                                                       THEN create_string_buffer(secret_key, lsk)
                                                       ELSE <<>>,
                                        frees |-> 0]]
                                 /\ last' = [r1 EXCEPT !.inst = i]
    /\ pc' = PcAfter(last')
    /\ UNCHANGED <<libVars, allocator, kept>>

\* How the native free routine may end (line 171 / 308).  Handed an address
\* the allocator holds as allocated it returns.  Handed one it has already
\* freed the behaviour is undefined: the allocator detects the double free and
\* aborts the process, or the call returns and leaves the allocator corrupt.
\* With a corrupt allocator every call may abort.
NativeFreeOutcomes(h, al, a) ==
    IF h[a].alloc /\ al = "ok" THEN {"return"} ELSE {"return", "abort"}

\* free() (169-171 / 306-308): the native free routine on self._kem / self._sig,
\* whatever was done to the object before.  op is "free" or "__exit__".
DoFree(i, op) ==
    \E outcome \in NativeFreeOutcomes(heap, allocator, inst[i].ctx) :
       LET r == [CallNative(Op(op, i), FreeFn(inst[i].family), i, 0) EXCEPT !.nfree = 1]
       IN  /\ heap' = NativeFree(heap, inst[i].ctx)
           /\ allocator' = IF heap[inst[i].ctx].alloc THEN allocator ELSE "corrupt"
           /\ inst' = [inst EXCEPT ![i].frees = @ + 1]
           /\ last' = IF outcome = "abort" THEN Killed(r) ELSE r
           /\ pc' = PcAfter(last')

free(i) ==
    /\ Idle
    /\ inst[i].st = "obj"
    /\ inst[i].frees < MaxFrees
    /\ DoFree(i, "free")
    /\ UNCHANGED <<libVars, kept>>

\* __exit__(ctx_type, ctx_value, ctx_traceback) (129-130 / 260-261): called by
\* a with statement when its block is left, normally (raised = FALSE) or by an
\* exception of its body, or by the caller as any other method.
__exit__(i, raised) ==
    /\ pc = "ready"
    /\ IF raised THEN last.exc # "none" ELSE last = NoOp
    /\ inst[i].st = "obj"
    /\ inst[i].frees < MaxFrees
    /\ DoFree(i, "__exit__")
    /\ UNCHANGED <<libVars, kept>>

\* bytes_if_success returning the buffer whatever the status
bytes_always(r, rv, buffer) == [r EXCEPT !.rtype = "bytes", !.b1 = buffer]

\* `return bytes(buffer) if _rv == _OQS_SUCCESS else 0` (140, 167, 271, 288):
\* the record r of the call with its return value
bytes_if_success(r, rv, buffer) ==
    IF rv = _OQS_SUCCESS THEN [r EXCEPT !.rtype = "bytes", !.b1 = buffer]
    ELSE [r EXCEPT !.rtype = "int"]

\* generate_keypair (132-140 / 263-271)
generate_keypair(i) ==
    /\ Idle
    /\ inst[i].st = "obj"
    /\ \/ AllocatorKills(Op("generate_keypair", i)) /\ UNCHANGED inst
       \/ \E lpk \in Lens(i, "length_public_key"), lsk \in Lens(i, "length_secret_key") :
             IF ~Allocates(lpk) \/ ~Allocates(lsk)
             THEN \* line 137 or 138 raises: self.secret_key is not assigned
                  /\ RaiseAlloc(Op("generate_keypair", i))
                  /\ UNCHANGED inst
             ELSE \E rv \in Status, r \in Byte, kill \in NativeKills(i) :
                    LET ok == rv = _OQS_SUCCESS /\ ~kill
                        pk == IF ok THEN NativePublicKey(lpk, r) ELSE Zeros(lpk)
                        sk == IF ok THEN NativeSecretKey(lsk, r) ELSE Zeros(lsk)
                        r1 == CallNative(Op("generate_keypair", i),
                                         KeypairFn(inst[i].family), i,
                                         IF kill THEN 0 ELSE rv)
                    IN  /\ inst' = [inst EXCEPT ![i].has_sk = TRUE, ![i].secret_key = sk]
                        /\ last' = IF kill THEN Killed(r1)
                                   ELSE bytes_if_success(r1, rv, pk)
    /\ pc' = PcAfter(last')
    /\ UNCHANGED <<libVars, heap, allocator, kept>>

\* export_secret_key (142-144 / 273-275)
export_secret_key(i) ==
    /\ Idle
    /\ inst[i].st = "obj"
    /\ \/ AllocatorKills(Op("export_secret_key", i))
       \/ last' = IF ~has_secret_key(i)
                  THEN Raise(Op("export_secret_key", i), "AttributeError")
                  ELSE [Op("export_secret_key", i) EXCEPT !.rtype = "bytes",
                                                          !.b1 = inst[i].secret_key]
    /\ pc' = PcAfter(last')
    /\ UNCHANGED <<libVars, heap, allocator, inst, kept>>

\* OQS_KEM.encap_secret (146-156)
encap_secret(i, public_key) ==
    /\ Idle
    /\ inst[i].st = "obj"
    /\ inst[i].family = "KEM"
    /\ \/ AllocatorKills([Op("encap_secret", i) EXCEPT !.arg = public_key])
       \/ LET r0 == [Op("encap_secret", i) EXCEPT !.arg = public_key]
          IN  \E lpk \in Lens(i, "length_public_key") :
                IF ~Allocates(lpk)
                THEN RaiseAlloc(r0)
                ELSE IF ~Fits(public_key, lpk)
                THEN last' = Raise(r0, "ValueError")
                ELSE \E lct \in Lens(i, "length_ciphertext"),
                        lss \in Lens(i, "length_shared_secret") :
                     IF ~Allocates(lct) \/ ~Allocates(lss)
                     THEN RaiseAlloc(r0)
                     ELSE \E rv \in Status, e \in Byte, kill \in NativeKills(i) :
                        LET ok == rv = _OQS_SUCCESS
                            my_public_key == create_string_buffer(public_key, lpk)
                            ciphertext == IF ok THEN NativeCiphertext(lct, e) ELSE Zeros(lct)
                            shared_secret == NativeEncapsSecret(lss, my_public_key, e)
                            r1 == [CallNative(r0, "OQS_KEM_encaps", i, rv) EXCEPT
                                      !.nat_args = <<my_public_key>>]
                        IN  \* bytes(ciphertext), (bytes(shared_secret) if ... else 0)
                            last' = IF kill
                                    THEN Killed(CallNative(r0, "OQS_KEM_encaps", i, 0))
                                    ELSE IF ok
                                    THEN [r1 EXCEPT !.rtype = "tuple_bytes_bytes",
                                                    !.b1 = ciphertext, !.b2 = shared_secret]
                                    ELSE [r1 EXCEPT !.rtype = "tuple_bytes_int",
                                                    !.b1 = ciphertext]
    /\ pc' = PcAfter(last')
    /\ UNCHANGED <<libVars, heap, allocator, inst, kept>>

\* OQS_KEM.decap_secret (158-167)
decap_secret(i, ciphertext) ==
    /\ Idle
    /\ inst[i].st = "obj"
    /\ inst[i].family = "KEM"
    /\ \/ AllocatorKills([Op("decap_secret", i) EXCEPT !.arg = ciphertext])
       \/ LET r0 == [Op("decap_secret", i) EXCEPT !.arg = ciphertext]
          IN  \E lct \in Lens(i, "length_ciphertext") :
                IF ~Allocates(lct)
                THEN RaiseAlloc(r0)
                ELSE IF ~Fits(ciphertext, lct)
                THEN last' = Raise(r0, "ValueError")
                ELSE \E lss \in Lens(i, "length_shared_secret") :
                     IF ~Allocates(lss)
                     THEN RaiseAlloc(r0)
                     ELSE IF ~has_secret_key(i)
                     THEN \* self.secret_key is evaluated with the arguments of the
                          \* call, after the two buffers are made
                          last' = Raise(r0, "AttributeError")
                     ELSE \E rv \in Status, kill \in NativeKills(i) :
                        LET my_ciphertext == create_string_buffer(ciphertext, lct)
                            shared_secret ==
                                NativeDecapsSecret(lss, my_ciphertext, inst[i].secret_key)
                            r1 == [CallNative(r0, "OQS_KEM_decaps", i, rv) EXCEPT
                                      !.nat_args = <<my_ciphertext, inst[i].secret_key>>]
                        IN  last' = IF kill
                                    THEN Killed(CallNative(r0, "OQS_KEM_decaps", i, 0))
                                    ELSE bytes_if_success(r1, rv, shared_secret)
    /\ pc' = PcAfter(last')
    /\ UNCHANGED <<libVars, heap, allocator, inst, kept>>

\* OQS_SIG.sign (277-288)
sign(i, message) ==
    /\ Idle
    /\ inst[i].st = "obj"
    /\ inst[i].family = "SIG"
    /\ \/ AllocatorKills([Op("sign", i) EXCEPT !.msg = message])
       \/ LET r0 == [Op("sign", i) EXCEPT !.msg = message]
              my_message == create_string_buffer(message, Len(message))
          IN  \E lsig \in Lens(i, "length_signature") :
                IF ~Allocates(lsig)
                THEN RaiseAlloc(r0)
                ELSE IF ~has_secret_key(i)
                THEN \* self.secret_key is evaluated with the arguments of the call,
                     \* after the two buffers are made
                     last' = Raise(r0, "AttributeError")
                ELSE \E rv \in Status, kill \in NativeKills(i) :
                      LET signature == NativeSignature(lsig, my_message, inst[i].secret_key)
                          r1 == [CallNative(r0, "OQS_SIG_sign", i, rv) EXCEPT
                                    !.nat_args = <<my_message, inst[i].secret_key>>]
                      IN  last' = IF kill
                                  THEN Killed(CallNative(r0, "OQS_SIG_sign", i, 0))
                                  ELSE bytes_if_success(r1, rv, signature)
    /\ pc' = PcAfter(last')
    /\ UNCHANGED <<libVars, heap, allocator, inst, kept>>

\* The status OQS_SIG_verify may return: decided by the signature when the
\* context is the object's own and intact, anything when it is not.
VerifyStatuses(i, m, sg, pk) ==
    IF Sound(i) THEN {NativeVerifyStatus(m, sg, pk)} ELSE Status

\* OQS_SIG.verify (290-304)
verify(i, message, signature, public_key) ==
    /\ Idle
    /\ inst[i].st = "obj"
    /\ inst[i].family = "SIG"
    /\ \/ AllocatorKills([Op("verify", i) EXCEPT !.msg = message, !.sig = signature, !.arg = public_key])
       \/ LET r0 == [Op("verify", i) EXCEPT !.msg = message, !.sig = signature,
                                            !.arg = public_key]
              my_message == create_string_buffer(message, Len(message))
              my_signature == create_string_buffer(signature, Len(signature))
          IN  \E lpk \in Lens(i, "length_public_key") :
                IF ~Allocates(lpk)
                THEN RaiseAlloc(r0)
                ELSE IF ~Fits(public_key, lpk)
                THEN last' = Raise(r0, "ValueError")
                ELSE LET my_public_key == create_string_buffer(public_key, lpk)
                     IN  \E rv \in VerifyStatuses(i, my_message, my_signature, my_public_key),
                            kill \in NativeKills(i) :
                            last' = IF kill
                                    THEN Killed(CallNative(r0, "OQS_SIG_verify", i, 0))
                                    ELSE [CallNative(r0, "OQS_SIG_verify", i, rv) EXCEPT
                                        !.nat_args = <<my_message, my_signature, my_public_key>>,
                                        !.rtype = "bool", !.flag = (rv = _OQS_SUCCESS)]
    /\ pc' = PcAfter(last')
    /\ UNCHANGED <<libVars, heap, allocator, inst, kept>>

ReprPrefix == [KEM |-> "Key encapsulation mechanism: ", SIG |-> "Signature mechanism: "]

\* A string that is not the name of a mechanism
OtherText == "?"

\* self._kem.contents.method_name.decode(): the name of the mechanism.  Through
\* a pointer to a freed or overwritten context the read is undefined: the name
\* (the memory was not reused), some other string, None (a NULL pointer, and
\* None has no decode), bytes that are not UTF-8, or a fault that kills the
\* process.
MethodNames(i) ==
    IF Sound(i) THEN {[text |-> inst[i].alg, exc |-> "none", killed |-> FALSE]}
    ELSE {[text |-> t, exc |-> "none", killed |-> FALSE] : t \in {inst[i].alg, OtherText}}
         \cup {[text |-> "none", exc |-> e, killed |-> FALSE] :
                   e \in {"AttributeError", "UnicodeDecodeError"}}
         \cup {[text |-> "none", exc |-> "none", killed |-> TRUE]}

\* __repr__ (173-174 / 310-311)
__repr__(i) ==
    /\ Idle
    /\ inst[i].st = "obj"
    /\ \/ AllocatorKills(Op("__repr__", i))
       \/ \E m \in MethodNames(i) :
             last' = IF m.killed THEN Killed(Op("__repr__", i))
                     ELSE IF m.exc # "none" THEN Raise(Op("__repr__", i), m.exc)
                     ELSE [Op("__repr__", i) EXCEPT
                              !.rtype = "str",
                              !.text = ReprPrefix[inst[i].family] \o m.text]
    /\ pc' = PcAfter(last')
    /\ UNCHANGED <<libVars, heap, allocator, inst, kept>>

\* The caller goes on after the last operation: with its result, or having
\* caught its exception.
Resume ==
    /\ pc = "ready"
    /\ last # NoOp
    /\ last' = NoOp
    /\ UNCHANGED <<importVars, heap, allocator, inst, kept>>

(***************************************************************************)
(* Specifications.                                                         *)
(***************************************************************************)
EmptyLists == [f \in Family |-> <<>>]

\* The state in which the interpreter starts to execute the module.
InitImport ==
    /\ pc = "load"
    /\ environ \in {Unset, ""} \cup Paths
    /\ found \in {NoneVal, SysPath}
    /\ exists \in SUBSET Paths
    /\ loadable \in SUBSET Paths
    /\ built \in SUBSET AlgNames
    /\ liboqs = NoneVal
    /\ exitMsg = NoneVal
    /\ alg_ids = EmptyLists
    /\ supported = EmptyLists
    /\ enabled = EmptyLists
    /\ probeIdx = 0
    /\ heap = [a \in Addr |-> FreeCell]
    /\ allocator = "ok"
    /\ inst = [i \in Inst |-> NoInst]
    /\ last = NoOp
    /\ kept = NoKept

NextImport ==
    \/ _load_shared_obj
    \/ \E f \in Family : Enumerate(f)
    \/ \E f \in Family : Probe(f)
    \/ \E f \in Family : ProbeDone(f)

SpecImport == InitImport /\ [][NextImport]_vars

\* s filtered by membership in b, in the order of s
RECURSIVE SelectIn(_, _)
SelectIn(s, b) ==
    IF s = <<>> THEN <<>>
    ELSE IF Head(s) \in b THEN <<Head(s)>> \o SelectIn(Tail(s), b)
    ELSE SelectIn(Tail(s), b)

\* The builds the wrapper part is explored with: each mechanism is enabled in
\* one of them and supported but not enabled in the other.
Builds == {{"K1", "S2"}, {"K2", "S1"}}

\* The state when the import has finished: the library was found by the
\* system search, and the lists are those the registry built for this build.
Init ==
    /\ pc = "ready"
    /\ environ = Unset
    /\ found = SysPath
    /\ exists = {SysPath}
    /\ loadable = {SysPath}
    /\ built \in Builds
    /\ liboqs = SysPath
    /\ exitMsg = NoneVal
    /\ alg_ids = NativeAlgs
    /\ supported = NativeAlgs
    /\ enabled = [f \in Family |-> SelectIn(NativeAlgs[f], built)]
    /\ probeIdx = Len(NativeAlgs["SIG"]) + 1
    /\ heap = [a \in Addr |-> FreeCell]
    /\ allocator = "ok"
    /\ inst = [i \in Inst |-> NoInst]
    /\ last = NoOp
    /\ kept = NoKept

\* Every state in which the import ends is a state Spec starts from, but for
\* the build and for where the library was found.
ImportEndsAsSpecStarts ==
    pc = "ready" =>
        /\ liboqs \in Paths /\ exitMsg = NoneVal
        /\ alg_ids = NativeAlgs /\ supported = NativeAlgs
        /\ enabled = [f \in Family |-> SelectIn(NativeAlgs[f], built)]
        /\ probeIdx = Len(NativeAlgs["SIG"]) + 1
        /\ heap = [a \in Addr |-> FreeCell]
        /\ allocator = "ok"
        /\ inst = [i \in Inst |-> NoInst]
        /\ last = NoOp
        /\ kept = NoKept

SecretKeyArgs == {<<TRUE, <<>>>>} \cup {<<FALSE, k>> : k \in Inputs}

\* The list object bound to the global _enabled_KEMs / _enabled_sigs
ListObject(f) == "_enabled_" \o f

\* get_enabled_mechanisms returning a new list with the same elements
ReturnedListCopy(f) == "copy"

\* `return _enabled_KEMs` (204), `return _enabled_sigs` (341): the object the
\* function returns is the list the global is bound to
ReturnedList(f) == ListObject(f)

\* get_enabled_KEM_mechanisms / get_enabled_sig_mechanisms (202-204 / 339-341)
get_enabled_mechanisms(f) ==
    /\ Idle
    /\ LET r == [NoOp EXCEPT !.op = "get_enabled_mechanisms", !.family = f]
       IN  \/ AllocatorKills(r)
           \/ last' = [r EXCEPT !.rtype = "list", !.obj = ReturnedList(f)]
    /\ pc' = PcAfter(last')
    /\ UNCHANGED <<libVars, heap, allocator, inst, kept>>

PrintPrefix == [KEM |-> "Enabled KEM mechanisms:", SIG |-> "Enabled signature mechanisms:"]

\* ', '.join(s)
RECURSIVE Join(_)
Join(s) ==
    IF s = <<>> THEN ""
    ELSE IF Len(s) = 1 THEN s[1]
    ELSE s[1] \o ", " \o Join(Tail(s))

\* print_enabled_KEM_mechanisms / print_enabled_sig_mechanisms (206-208 /
\* 344-346): the line printed, from the list as it is now
print_enabled_mechanisms(f) ==
    /\ Idle
    /\ LET r == [NoOp EXCEPT !.op = "print_enabled_mechanisms", !.family = f]
       IN  \/ AllocatorKills(r)
           \/ last' = [r EXCEPT !.text = PrintPrefix[f] \o " " \o Join(enabled[f])]
    /\ pc' = PcAfter(last')
    /\ UNCHANGED <<libVars, heap, allocator, inst, kept>>

\* list.remove(x): s without the first occurrence of x
RECURSIVE RemoveFirst(_, _)
RemoveFirst(s, x) ==
    IF s = <<>> THEN <<>>
    ELSE IF Head(s) = x THEN Tail(s)
    ELSE <<Head(s)>> \o RemoveFirst(Tail(s), x)

\* The caller appends x to the list get_enabled_mechanisms returned: the
\* module's list changes when the object returned is the module's list.  The
\* list grows by an allocation, which may abort the process once the allocator
\* is corrupt.
ListAppend(x) ==
    /\ pc = "ready"
    /\ last.op = "get_enabled_mechanisms"
    /\ last.rtype = "list"
    /\ Len(enabled[last.family]) < MaxListLen
    /\ \/ /\ AllocatorKills([NoOp EXCEPT !.op = "list.append", !.family = last.family,
                                          !.name = x])
          /\ UNCHANGED enabled
       \/ /\ enabled' = IF last.obj = ListObject(last.family)
                        THEN [enabled EXCEPT ![last.family] = Append(@, x)]
                        ELSE enabled
          /\ last' = NoOp
    /\ pc' = PcAfter(last')
    /\ UNCHANGED <<envVars, liboqs, exitMsg, alg_ids, supported, probeIdx,
                   heap, allocator, inst, kept>>

\* The caller removes x from the list get_enabled_mechanisms returned.
ListRemove(x) ==
    /\ pc = "ready"
    /\ last.op = "get_enabled_mechanisms"
    /\ last.rtype = "list"
    /\ InList(x, enabled[last.family])
    /\ enabled' = IF last.obj = ListObject(last.family)
                  THEN [enabled EXCEPT ![last.family] = RemoveFirst(@, x)]
                  ELSE enabled
    /\ last' = NoOp
    /\ UNCHANGED <<pc, envVars, liboqs, exitMsg, alg_ids, supported, probeIdx,
                   heap, allocator, inst, kept>>

\* The lists of enabled mechanisms are those the import built: the caller has
\* not changed them.
ListsAsImported == enabled = [f \in Family |-> SelectIn(NativeAlgs[f], built)]

\* The names the caller of Spec appends to the list of family f: the names of
\* the family (enabled or not) and an unknown name.  A name of the other family
\* is an unknown name to this one.
NamesOf(f) == SeqToSet(NativeAlgs[f]) \cup {UnknownName}

\* The objects of family f the caller holds
Objs(f) == {i \in DOMAIN inst : inst[i].st = "obj" /\ inst[i].family = f}
AllObjs == {i \in DOMAIN inst : inst[i].st = "obj"}

\* The caller of Spec: it constructs one object, with any name and key, calls
\* every operation on it in any order, released or not, calls the functions of
\* the module, and changes a list of enabled mechanisms it was given at most
\* once.
Next ==
    \/ Idle /\ \E i \in DOMAIN inst, f \in Family, n \in Names, k \in SecretKeyArgs,
                  w \in BOOLEAN : __init__(i, f, n, k[1], k[2], w)
    \/ Idle /\ \E i \in AllObjs : free(i)
    \/ \E i \in AllObjs, raised \in BOOLEAN : __exit__(i, raised)
    \/ Idle /\ \E i \in AllObjs : generate_keypair(i)
    \/ Idle /\ \E i \in AllObjs : export_secret_key(i)
    \/ Idle /\ \E i \in Objs("KEM"), public_key \in Inputs : encap_secret(i, public_key)
    \/ Idle /\ \E i \in Objs("KEM"), ciphertext \in Inputs : decap_secret(i, ciphertext)
    \/ Idle /\ \E i \in Objs("SIG"), message \in Messages : sign(i, message)
    \/ Idle /\ \E i \in Objs("SIG"), message \in Messages, signature \in Signatures,
                  public_key \in Inputs : verify(i, message, signature, public_key)
    \/ Idle /\ \E i \in AllObjs : __repr__(i)
    \/ Idle /\ \E f \in Family, n \in Names : is_mechanism_enabled(f, n)
    \/ Idle /\ \E f \in Family : get_enabled_mechanisms(f)
    \/ Idle /\ \E f \in Family : print_enabled_mechanisms(f)
    \/ \E f \in Family : \E x \in NamesOf(f) :
          ListsAsImported /\ last.family = f /\ ListAppend(x)
    \/ \E x \in Names : ListsAsImported /\ ListRemove(x)
    \/ Resume

Spec == Init /\ [][Next]_vars

\* What the caller keeps when the operation recorded in r returns: a new
\* object or a new key pair makes the earlier results stale.
Keep(k, r) ==
    IF r.op = "__init__" THEN NoKept
    ELSE IF r.op = "generate_keypair"
    THEN IF r.rtype = "bytes" THEN [NoKept EXCEPT !.has_pk = TRUE, !.pk = r.b1] ELSE NoKept
    ELSE IF r.op = "encap_secret" /\ r.rtype = "tuple_bytes_bytes" /\ k.has_pk /\ r.arg = k.pk
    THEN [k EXCEPT !.has_ct = TRUE, !.ct = r.b1, !.ss = r.b2]
    ELSE IF r.op = "sign" /\ r.rtype = "bytes" /\ k.has_pk
    THEN [k EXCEPT !.has_sig = TRUE, !.msg = r.msg, !.sig = r.b1]
    ELSE k

\* The caller goes on and keeps the result of the last operation.
Return ==
    /\ pc = "ready"
    /\ last # NoOp
    /\ kept' = Keep(kept, last)
    /\ last' = NoOp
    /\ UNCHANGED <<importVars, heap, allocator, inst>>

\* A caller that uses one object, does not release it, and keeps what the
\* operations return to pass it to the later ones (among other inputs).
NextCaller ==
    \/ Idle /\ \E i \in DOMAIN inst, f \in Family, k \in SecretKeyArgs :
                  \E n \in SeqToSet(enabled[f]) : __init__(i, f, n, k[1], k[2], FALSE)
    \/ Idle /\ \E i \in AllObjs : generate_keypair(i)
    \/ Idle /\ \E i \in Objs("KEM"), public_key \in Inputs : encap_secret(i, public_key)
    \/ Idle /\ \E i \in Objs("KEM"), ciphertext \in Inputs : decap_secret(i, ciphertext)
    \/ Idle /\ \E i \in Objs("SIG"), message \in Messages : sign(i, message)
    \/ Idle /\ \E i \in Objs("SIG"), message \in Messages, signature \in Signatures,
                  public_key \in Inputs : verify(i, message, signature, public_key)
    \/ Return

SpecCaller == Init /\ [][NextCaller]_vars

\* A few secret keys to construct objects with: none, or the shortest keys.
SecretKeyArgsTwo == {<<TRUE, <<>>>>} \cup {<<FALSE, k>> : k \in Strings(1) \ {<<>>}}

\* A caller that reads the lists of enabled mechanisms, changes the lists it
\* was given, and constructs an object.
NextLists ==
    \/ Idle /\ \E f \in Family : get_enabled_mechanisms(f)
    \/ Idle /\ \E f \in Family : print_enabled_mechanisms(f)
    \/ \E x \in Names : ListAppend(x)
    \/ \E x \in Names : ListRemove(x)
    \/ Idle /\ \E i \in DOMAIN inst, f \in Family, n \in Names, k \in SecretKeyArgsTwo :
                  __init__(i, f, n, k[1], k[2], FALSE)
    \/ Idle /\ \E i \in AllObjs : free(i)
    \/ Resume

SpecLists == Init /\ [][NextLists]_vars

\* A caller that holds two objects at a time, and constructs with every name of
\* the family, known to the library or not.
Inst2 == {1, 2}

InitTwo ==
    /\ pc = "ready"
    /\ environ = Unset
    /\ found = SysPath
    /\ exists = {SysPath}
    /\ loadable = {SysPath}
    /\ built \in Builds
    /\ liboqs = SysPath
    /\ exitMsg = NoneVal
    /\ alg_ids = NativeAlgs
    /\ supported = NativeAlgs
    /\ enabled = [f \in Family |-> SelectIn(NativeAlgs[f], built)]
    /\ probeIdx = Len(NativeAlgs["SIG"]) + 1
    /\ heap = [a \in Addr |-> FreeCell]
    /\ allocator = "ok"
    /\ inst = [i \in Inst2 |-> NoInst]
    /\ last = NoOp
    /\ kept = NoKept

NextTwo ==
    \/ Idle /\ \E i \in DOMAIN inst, f \in Family, k \in SecretKeyArgsTwo :
                  \E n \in NamesOf(f) : __init__(i, f, n, k[1], k[2], FALSE)
    \/ Idle /\ \E i \in AllObjs : free(i)
    \/ Idle /\ \E i \in AllObjs : generate_keypair(i)
    \/ Idle /\ \E i \in AllObjs : export_secret_key(i)
    \/ Idle /\ \E i \in Objs("KEM"), ciphertext \in Strings(1) : decap_secret(i, ciphertext)
    \/ Idle /\ \E i \in Objs("SIG"), message \in Strings(1) : sign(i, message)
    \/ Idle /\ \E i \in AllObjs : __repr__(i)
    \/ Idle /\ \E f \in Family : \E n \in SeqToSet(enabled[f]) : is_mechanism_enabled(f, n)
    \/ Resume

SpecTwo == InitTwo /\ [][NextTwo]_vars

(***************************************************************************)
(* The claims.                                                             *)
(***************************************************************************)
ContextOps == {"generate_keypair", "encap_secret", "decap_secret", "sign", "verify"}
SecretKeyOps == {"export_secret_key", "decap_secret", "sign"}

\* name is in the family's supported list but not in its enabled list
SupportedNotEnabled(f, name) == InList(name, supported[f]) /\ ~InList(name, enabled[f])

\* The last operation returned or raised: the process was not killed in it.
Completed == last.rtype # "killed"

\* C1: for every object and every sequence of free() and __exit__ on it, the
\* native free routine is invoked on the object's context at most once.
C1_FreedAtMostOnce ==
    \A i \in DOMAIN inst : inst[i].frees <= 1

\* C2: after free(), every other operation on the object fails fast (raises)
\* and never passes the released context to a native routine.
C2_ReleasedFailsFast ==
    (last.op \in ContextOps /\ last.pre_released)
        => (last.exc # "none" /\ last.native = "none")

\* C3: no state holds a native context that a constructor acquired and that no
\* object can release any more; in particular a constructor that fails after
\* the native new routine returned releases the context it obtained.
C3_NoLeakedContext ==
    \A a \in Addr : heap[a].alloc => heap[a].owner \in AllObjs

\* C4: encap_secret returns the pair (ciphertext, shared_secret) iff the native
\* status is 0; for a non-zero status no ciphertext is returned.
C4_EncapAllOrNothing ==
    (last.op = "encap_secret" /\ last.native = "OQS_KEM_encaps" /\ Completed)
        => /\ (last.rtype = "tuple_bytes_bytes") <=> (last.rv = 0)
           /\ last.rv # 0 => last.rtype \notin {"tuple_bytes_bytes", "tuple_bytes_int"}

\* C5: verify on an unreleased object returns a boolean for every input: true
\* iff the native status is 0, and false, never a raised error, for signatures
\* and public keys of any length.
C5_VerifyReturnsBool ==
    (last.op = "verify" /\ ~last.pre_released /\ Completed)
        => /\ last.exc = "none"
           /\ last.rtype = "bool"
           /\ last.flag <=> (last.rv = 0)

C7_UnsupportedRejectedBeforeNew ==
    (last.op = "__init__" /\ ~InList(last.name, supported[last.family]))
        => /\ last.exc = "MechanismNotSupportedError"
           /\ last.native = "none"
           /\ last.inst = 0

\* C8: on an object that holds no secret key, export_secret_key, decap_secret
\* and sign never invoke the native decapsulation or signing routine, and
\* they raise (unless the process is killed in them: the allocator was left
\* corrupt by an earlier double free).  The exception is AttributeError for
\* the missing key; decap_secret raises ValueError first when the ciphertext is
\* longer than length_ciphertext; on a released object decap_secret and sign
\* may raise MemoryError or OverflowError first, making a buffer of a length
\* read from the freed context.
C8_NoSecretKeyFailsBeforeNative ==
    (last.op \in SecretKeyOps /\ ~last.pre_has_sk)
        => /\ last.native = "none"
           /\ Completed =>
              \/ last.exc = "AttributeError"
              \/ /\ last.op = "decap_secret"
                 /\ last.exc = "ValueError"
                 /\ last.pre_valid =>
                       Len(last.arg) > NativeDesc[last.name].length_ciphertext
              \/ /\ last.op \in {"decap_secret", "sign"}
                 /\ ~last.pre_valid
                 /\ last.exc \in AllocErrors

C8_Witness ==
    /\ last.op = "decap_secret"
    /\ ~last.pre_has_sk
    /\ ~last.pre_released
    /\ Len(last.arg) = NativeDesc[last.name].length_ciphertext
    /\ last.exc = "AttributeError"

\* C9: when a secret key is supplied to the constructor of an enabled
\* mechanism, the object is made and holds a secret key of exactly
\* length_secret_key bytes, for every supplied key (empty, shorter, longer).
C9_SuppliedKeyHeld ==
    (last.op = "__init__" /\ ~last.arg_none /\ InList(last.name, enabled[last.family]))
        => /\ last.exc = "none"
           /\ last.inst \in DOMAIN inst
           /\ inst[last.inst].has_sk
           /\ Len(inst[last.inst].secret_key) = NativeDesc[last.name].length_secret_key

\* s is a subsequence of t: the elements of s occur in t, in the same order
RECURSIVE IsSubsequence(_, _)
IsSubsequence(s, t) ==
    IF s = <<>> THEN TRUE
    ELSE IF t = <<>> THEN FALSE
    ELSE IF Head(s) = Head(t) THEN IsSubsequence(Tail(s), Tail(t))
    ELSE IsSubsequence(s, Tail(t))

\* C10: for both families the enabled list is a subsequence of the supported
\* list (every enabled identifier is supported, in the order of the native
\* enumeration), whatever the probes answer.
C10_EnabledSubsequenceOfSupported ==
    \A f \in Family : IsSubsequence(enabled[f], supported[f])

C10_Witness ==
    /\ pc = "ready"
    /\ enabled["KEM"] = <<"K1", "K2">>
    /\ enabled["SIG"] = <<"S2">>
    /\ supported["SIG"] = <<"S1", "S2">>

\* The native contexts that are allocated
Live == {a \in Addr : heap[a].alloc}

\* C11: the enablement probe never leaks and never propagates an error: it
\* returns true exactly for a non-null context, which it has freed once before
\* it returns; a null context (ValueError on its contents) makes it return
\* false; no probe context is live between two probes or after the
\* enumeration.
C11_ProbeNeverLeaks ==
    /\ Live = {}
    /\ last.op = "is_enabled" =>
          /\ last.exc = "none"
          /\ last.flag <=> last.name \in built
          /\ last.nfree = IF last.flag THEN 1 ELSE 0

C11_Witness ==
    /\ pc = "ready"
    /\ built = {"K2", "S1", "S2"}
    /\ enabled = [KEM |-> <<"K2">>, SIG |-> <<"S1", "S2">>]
    /\ Live = {}

\* C12: generate_keypair, decap_secret and sign, once their native routine has
\* returned, return their byte result iff the native status is 0; for every
\* other status they return the sentinel 0 and do not raise.
C12_BytesIffSuccess ==
    (last.op \in {"generate_keypair", "decap_secret", "sign"}
     /\ last.native # "none" /\ Completed)
        => /\ last.exc = "none"
           /\ (last.rtype = "bytes") <=> (last.rv = 0)
           /\ (last.rtype = "int") <=> (last.rv # 0)

C12_Witness ==
    /\ last.op = "sign"
    /\ last.native = "OQS_SIG_sign"
    /\ last.rv = 1
    /\ last.rtype = "int"
    /\ last.exc = "none"

\* C13: for every identifier in a family's enabled list construction
\* succeeds (an object is made); and a generate_keypair that succeeds returns
\* a public key of exactly length_public_key bytes and leaves the object
\* holding a secret key of exactly length_secret_key bytes, the lengths of the
\* mechanism's descriptor, whatever key the object held before.
C13_KeypairLengths ==
    /\ (last.op = "__init__" /\ InList(last.name, enabled[last.family]))
          => /\ last.exc = "none"
             /\ last.inst \in DOMAIN inst
             /\ inst[last.inst].alg = last.name
    /\ (last.op = "generate_keypair" /\ last.rtype = "bytes")
          => /\ Len(last.b1) = NativeDesc[last.name].length_public_key
             /\ inst[last.inst].has_sk
             /\ Len(inst[last.inst].secret_key) = NativeDesc[last.name].length_secret_key

\* The candidate the claims expect the locator to choose: the value of
\* LIBOQS_INSTALL_PATH if it is set, non-empty and exists; else the result of
\* the system search if there is one and it exists; else the file of the
\* current directory if it exists; else none.
EnvExists == environ \notin {Unset, ""} /\ environ \in exists
PriorityChoice ==
    IF EnvExists THEN environ
    ELSE IF found # NoneVal /\ found \in exists THEN found
    ELSE IF CurdirPath \in exists THEN CurdirPath
    ELSE NoneVal

\* C14: the locator tries the candidates in priority order (environment
\* variable, system search, current directory), skips those that are empty or
\* do not exist, and the library it loads is the first that is non-empty and
\* exists, never a later one; an existing environment-variable path is chosen
\* over the other two.
C14_LoadsFirstExisting ==
    pc # "load" =>
        /\ liboqs # NoneVal => liboqs = PriorityChoice
        /\ (PriorityChoice # NoneVal /\ PriorityChoice \in loadable) => liboqs = PriorityChoice
        /\ EnvExists => liboqs \in {environ, NoneVal}

\* the environment variable names a file that does not exist, the system
\* search finds nothing, the library of the current directory is loaded
C14_Witness ==
    /\ pc = "ready"
    /\ environ = EnvPath
    /\ EnvPath \notin exists
    /\ found = NoneVal
    /\ SysPath \in exists
    /\ liboqs = CurdirPath

\* C15: loading is one attempt.  When the first existing candidate does not
\* load (OSError) or no candidate exists (RuntimeError) the process exits, with
\* a different exit message for each case, no other candidate is tried, and
\* nothing runs after the exit: no enumeration, no probe, no construction.
C15_ExitState ==
    /\ (pc # "load" /\ PriorityChoice = NoneVal)
          => pc = "exit" /\ exitMsg = RuntimeErrorMsg
    /\ (pc # "load" /\ PriorityChoice # NoneVal /\ PriorityChoice \notin loadable)
          => pc = "exit" /\ exitMsg = OSErrorMsg
    /\ OSErrorMsg # RuntimeErrorMsg
    /\ pc = "exit"
          => /\ liboqs = NoneVal
             /\ alg_ids = EmptyLists /\ supported = EmptyLists /\ enabled = EmptyLists
             /\ \A i \in DOMAIN inst : inst[i] = NoInst
             /\ Live = {}
             /\ last = NoOp

C15_SingleAttempt == [](C15_ExitState) /\ [][pc # "exit"]_vars

\* the first existing candidate does not load, a later one would have
C15_Witness ==
    /\ pc = "exit"
    /\ exitMsg = OSErrorMsg
    /\ environ = EnvPath
    /\ EnvPath \in exists
    /\ EnvPath \notin loadable
    /\ found = SysPath
    /\ SysPath \in exists
    /\ SysPath \in loadable

\* C16: KEM round trip on one unreleased object.  After a successful
\* generate_keypair returned pk and encap_secret(pk) returned (ct, ss),
\* decap_secret(ct) calls the native routine with ct and the held secret key
\* unchanged and, when the native status is 0, returns exactly ss; and
\* encap_secret(pk) passes pk to the native routine unchanged.
C16_KEMRoundTrip ==
    /\ (last.op = "decap_secret" /\ ~last.pre_released /\ kept.has_ct /\ last.arg = kept.ct)
          => /\ last.exc = "none"
             /\ last.native = "OQS_KEM_decaps"
             /\ last.nat_args = <<kept.ct, inst[last.inst].secret_key>>
             /\ last.rv = 0 => (last.rtype = "bytes" /\ last.b1 = kept.ss)
    /\ (last.op = "encap_secret" /\ ~last.pre_released /\ kept.has_pk /\ last.arg = kept.pk)
          => /\ last.exc = "none"
             /\ last.nat_args = <<kept.pk>>

C16_Witness ==
    /\ last.op = "decap_secret"
    /\ ~last.pre_released
    /\ kept.has_ct
    /\ last.arg = kept.ct
    /\ last.rv = 0
    /\ last.b1 = kept.ss
    /\ kept.ss = <<1>>
    /\ kept.pk = <<1, 0>>

\* C17: SIG round trip on one unreleased object.  After a successful
\* generate_keypair returned pk and sign(m) returned a signature,
\* verify(m, signature, pk) returns true, for every message, the empty one
\* and those with zero bytes included; sign and verify pass the message to
\* the native routine with exactly its own length and content.
C17_SIGRoundTrip ==
    /\ (last.op = "verify" /\ ~last.pre_released /\ kept.has_pk /\ kept.has_sig
          /\ last.msg = kept.msg /\ last.sig = kept.sig /\ last.arg = kept.pk)
          => /\ last.exc = "none"
             /\ last.native = "OQS_SIG_verify"
             /\ last.rtype = "bool"
             /\ last.flag
             /\ last.nat_args = <<kept.msg, kept.sig, kept.pk>>
    /\ (last.op = "sign" /\ last.native # "none") => last.nat_args[1] = last.msg
    /\ (last.op = "verify" /\ last.native # "none") => last.nat_args[1] = last.msg

\* a message that ends with a zero byte
C17_Witness ==
    /\ last.op = "verify"
    /\ ~last.pre_released
    /\ kept.has_pk /\ kept.has_sig
    /\ last.msg = kept.msg /\ last.sig = kept.sig /\ last.arg = kept.pk
    /\ kept.msg = <<1, 0>>
    /\ last.flag

\* C18: a generate_keypair that fails natively (non-zero status) on an object
\* that holds a secret key leaves the object holding the same secret key as
\* before the call.
C18_FailedKeygenKeepsKey ==
    [][(last'.op = "generate_keypair" /\ last'.rv # 0 /\ last'.pre_has_sk)
          => inst'[last'.inst].secret_key = inst[last'.inst].secret_key]_vars

\* C19: objects are isolated.  No operation on one object changes the secret
\* key another object holds or makes another object's native context
\* invalid, and no two unreleased objects hold the same native context.
C19_NoSharedContext ==
    \A i, j \in DOMAIN inst :
        (i # j /\ inst[i].st = "obj" /\ inst[j].st = "obj"
         /\ inst[i].frees = 0 /\ inst[j].frees = 0) => inst[i].ctx # inst[j].ctx

C19_OthersUntouched ==
    \A j \in DOMAIN inst :
        (inst[j].st = "obj" /\ last'.op # "none" /\ last'.inst # j)
            => /\ inst'[j] = inst[j]
               /\ Valid(j) => Valid(j)'

C19_InstancesIsolated == [](C19_NoSharedContext) /\ [][C19_OthersUntouched]_vars

\* C20: after initialization the supported and enabled lists of both
\* families never change: they stay the lists the import built, whatever the
\* wrapper operations do and whatever a caller does with the lists that
\* get_enabled_KEM_mechanisms() and get_enabled_sig_mechanisms() return.
C20_ListsNeverChange ==
    pc = "ready" =>
        /\ supported = NativeAlgs
        /\ enabled = [f \in Family |-> SelectIn(NativeAlgs[f], built)]

====
